---------------------------- MODULE Spec2Model ----------------------------
(***************************************************************************)
(* Model of the fsp-audio counter worker (src/worker.js).  The file holds  *)
(* two CountersDO classes: the SQLite-backed one (lines 1-371) and the     *)
(* Durable-Object key-value one (lines 558-900).  Both are modelled and    *)
(* are fed the same requests side by side: sqlTable is the `counters`      *)
(* table of the first, kvStore the state.storage map of the second.        *)
(*                                                                         *)
(* Ids are ProtoId and the integers 1..NumIds, standing for the strings    *)
(*    ProtoId = "__proto__",                                               *)
(*    1 = "e" + U+0301 (combining acute),  2 = U+00E9 (e acute),           *)
(*    3 = U+FF41 (fullwidth a),  i > 3 = the fullwidth letters after it.   *)
(* Integer order is the order of the UTF-8 bytes (SQLite's BINARY          *)
(* collation and the key order of storage.list()); LocaleKey is the order  *)
(* of String.prototype.localeCompare.  LongId stands for a 301-character   *)
(* id, EmptyId for "".                                                     *)
(*                                                                         *)
(* A JavaScript string is [type, txt, len]: txt names the text it was cut  *)
(* from and len is its length, so that slice(0, n) is a change of len.     *)
(***************************************************************************)
EXTENDS Integers, Sequences, FiniteSets, TLC

\* ------------------------------------------------------------- bounds
NumIds == 3      \* ids of the model, all named by /top and /counts requests
StoreIds == 2    \* ids named by the hits and resets of Spec and SpecCounts
StoreHits == 2   \* hits counted at any time in Spec, SpecCounts, SpecTitle
StoreTime == 1   \* largest Date.now() in Spec, SpecCounts and SpecTitle
TitleIds == 1    \* ids named by the hits of SpecTitle
MaxHits == 3     \* hits counted at any time in SpecTop
MaxTime == 2     \* largest Date.now() in SpecTop
MaxLimit == 2    \* largest limit a /top request asks for below the clamp
MaxBulk == 2     \* longest id list of a /counts request
MaxReq == 2      \* /hit requests in flight at once in SpecConc
BulkHits == 1    \* hits counted at any time in SpecBulk and SpecChunk
FailIds == 2     \* ids the requests of SpecFail name
FailHits == 2    \* hits a variant stores in SpecFail

\* ---------------------------------------------------- program constants
MAX_ID_LEN == 300
MAX_TITLE_LEN == 300
MAX_FILE_LEN == 260
MAX_IDS_POST == 600
TOP_LIMIT_MAX == 50
SQL_IN_CHUNK == 400

\* The cap of the ranked view named by the specification (default 500),
\* scaled to the model's id population.  No line of src/ defines it.
TOP_CAP == 2

ProtoId == -2
Ids == {ProtoId} \cup 1..NumIds
EmptyId == 0
LongId == NumIds + 1
Null == -1

Min(a, b) == IF a < b THEN a ELSE b
Max(a, b) == IF a > b THEN a ELSE b

\* ------------------------------------------------------------- strings
Str(t, n) == [type |-> "string", txt |-> t, len |-> n]
EmptyStr == Str("", 0)
Undefined == [type |-> "undefined", txt |-> "", len |-> 0]

\* Length of the string an id stands for.
IdLen(id) ==
    IF id = EmptyId THEN 0
    ELSE IF id = LongId THEN MAX_ID_LEN + 1
    ELSE IF id = ProtoId THEN 9
    ELSE 1

\* String.prototype.localeCompare on ids: ids 1 and 2 are canonically
\* equivalent and collate equal; the fullwidth letters a, b, ... collate
\* with a, b, ..., before every e, and the underscore before every letter.
LocaleKey(id) == IF id = ProtoId THEN -200 ELSE IF id <= 2 THEN 0 ELSE id - 100
LocaleCompare(a, b) == LocaleKey(a) - LocaleKey(b)

\* String.prototype.toLowerCase on the type texts the requests carry.
ToLowerCase(v) == IF v = "PLAY" THEN "play" ELSE v

normalizeType(v) ==
    LET t == ToLowerCase(v) IN
    IF t \in {"play", "download", "both"} THEN t ELSE "null"

clampStr(s, maxLen) ==
    IF s.type # "string" THEN EmptyStr
    ELSE IF s.len <= maxLen THEN s
    ELSE [s EXCEPT !.len = maxLen]

\* A raw id of a request body: the string `id` stands for, padded with
\* white space or not.  trim() drops the padding.
RawId(id, ws) == [id |-> id, ws |-> ws]
Trim(raw) == raw.id

\* Mutant: an id of any length passes.
sanitizeIdAnyLength(raw) == Trim(raw)

\* Mutant: any presented token passes once a secret is configured.
requireAdminAnyToken(token, secret) == secret # "" /\ token # ""

sanitizeId(raw) ==
    LET v == Trim(raw) IN
    IF v = EmptyId THEN EmptyId
    ELSE IF IdLen(v) > MAX_ID_LEN THEN EmptyId
    ELSE v

RECURSIVE sanitizeIdsFrom(_, _, _, _)
sanitizeIdsFrom(ids, i, out, maxCount) ==
    IF i > Len(ids) \/ Len(out) >= maxCount THEN out
    ELSE LET id == sanitizeId(ids[i]) IN
         IF id = EmptyId \/ (\E k \in 1..Len(out) : out[k] = id)
         THEN sanitizeIdsFrom(ids, i + 1, out, maxCount)
         ELSE sanitizeIdsFrom(ids, i + 1, Append(out, id), maxCount)

sanitizeIds(ids, maxCount) == sanitizeIdsFrom(ids, 1, <<>>, maxCount)

requireAdmin(token, secret) == secret # "" /\ token # "" /\ token = secret

\* -------------------------------------------------------------- state
VARIABLES
    sqlTable,   \* SQLite variant: the rows of table counters, by id
    kvStore,    \* KV variant: state.storage, key -> record
    now,        \* the last value Date.now() returned
    secret,     \* env.ADMIN_TOKEN ("" when not configured)
    resp,       \* the last request and the two variants' responses to it
    hits,       \* history: successful hits per id and kind since its last reset
    lastTitle,  \* history: last non-empty title stored by a hit since the reset
    lastFile,   \* history: the same for file_name
    wasReset,   \* history: ids reset by mode "id" and not hit since
    everHit,    \* history: ids that were ever hit
    allReset,   \* history: a mode "all" reset ran and no hit since
    walk,       \* a client following /top cursors, one per variant; `start`
                \* are the ids that had a counter at its first request
    reqs,       \* /hit requests in flight, by connection
    overlap     \* history: two hits of one id and kind were in flight at once

vars == <<sqlTable, kvStore, now, secret, resp, hits, lastTitle, lastFile,
          wasReset, everHit, allReset, walk, reqs, overlap>>

\* ------------------------------------------------ SQLite variant: storage
Has(store, id) == id \in DOMAIN store

Put(store, id, rec) ==
    [k \in DOMAIN store \cup {id} |-> IF k = id THEN rec ELSE store[k]]

\* Mutant: the delete takes the record of the next id along.
DeleteAlsoNext(store, id) == [k \in DOMAIN store \ {id, id + 1} |-> store[k]]

\* DELETE FROM counters WHERE id = ? / storage.delete(id)
Delete(store, id) == [k \in DOMAIN store \ {id} |-> store[k]]

EmptyStore == [k \in {} |-> 0]

\* INSERT ... ON CONFLICT(id) DO UPDATE SET ... of routeHit.
SqlUpsert(table, id, dPl, dDl, title, fileName, t) ==
    IF Has(table, id)
    THEN Put(table, id,
             [pl |-> table[id].pl + dPl,
              dl |-> table[id].dl + dDl,
              title |-> IF title # EmptyStr THEN title ELSE table[id].title,
              file_name |-> IF fileName # EmptyStr THEN fileName
                            ELSE table[id].file_name,
              updatedAt |-> t])
    ELSE Put(table, id,
             [pl |-> dPl, dl |-> dDl, title |-> title,
              file_name |-> fileName, updatedAt |-> t])

\* The response of a request that failed validation.
BadRequest(msg) == [status |-> 400, ok |-> FALSE, error |-> msg]

\* The response of the SQLite variant's fetch to an exception of a handler.
InternalError == [status |-> 500, ok |-> FALSE, error |-> "Internal error"]

\* routeHit of the SQLite variant: <<table after, response>>.
SqlRouteHit(table, body, t) ==
    LET type == normalizeType(body.type)
        id == sanitizeId(body.id)
        title == clampStr(body.title, MAX_TITLE_LEN)
        fileName == clampStr(body.file_name, MAX_FILE_LEN)
        dPl == IF type = "play" THEN 1 ELSE 0
        dDl == IF type = "download" THEN 1 ELSE 0
        after == SqlUpsert(table, id, dPl, dDl, title, fileName, t)
        row == after[id]
    IN  IF type # "play" /\ type # "download"
        THEN <<table, BadRequest("type")>>
        ELSE IF id = EmptyId
        THEN <<table, BadRequest("id")>>
        ELSE <<after,
               [status |-> 200, ok |-> TRUE, id |-> id,
                title |-> row.title, file_name |-> row.file_name,
                type |-> type,
                count |-> IF type = "play" THEN row.pl ELSE row.dl,
                updatedAt |-> IF row.updatedAt # 0 THEN row.updatedAt ELSE t]>>

\* --------------------------------------------------- KV variant: storage
\* prev = (await storage.get(id)) || {}, with the `Number(x) || 0` and
\* `x || ""` defaults routeHit applies to its fields.
KvPrev(store, id) ==
    IF Has(store, id) THEN store[id]
    ELSE [pl |-> 0, dl |-> 0, title |-> EmptyStr, file_name |-> EmptyStr,
          updatedAt |-> 0]

\* Mutant: the incoming title and file name always win.
KvNextOverwritesTitle(prev, type, title, fileName, t) ==
    [pl |-> prev.pl + (IF type = "play" THEN 1 ELSE 0),
     dl |-> prev.dl + (IF type = "download" THEN 1 ELSE 0),
     title |-> title,
     file_name |-> fileName,
     updatedAt |-> t]

\* The record `next` routeHit builds from prev.
KvNext(prev, type, title, fileName, t) ==
    [pl |-> prev.pl + (IF type = "play" THEN 1 ELSE 0),
     dl |-> prev.dl + (IF type = "download" THEN 1 ELSE 0),
     title |-> IF title # EmptyStr THEN title ELSE prev.title,
     file_name |-> IF fileName # EmptyStr THEN fileName ELSE prev.file_name,
     updatedAt |-> t]

KvHitResponse(id, type, next, t) ==
    [status |-> 200, ok |-> TRUE, id |-> id,
     title |-> next.title, file_name |-> next.file_name, type |-> type,
     count |-> IF type = "play" THEN next.pl ELSE next.dl,
     updatedAt |-> t]

\* routeHit of the KV variant run without interruption: <<store, response>>.
KvRouteHit(store, body, t) ==
    LET type == normalizeType(body.type)
        id == sanitizeId(body.id)
        title == clampStr(body.title, MAX_TITLE_LEN)
        fileName == clampStr(body.file_name, MAX_FILE_LEN)
        next == KvNext(KvPrev(store, id), type, title, fileName, t)
    IN  IF type # "play" /\ type # "download"
        THEN <<store, BadRequest("type")>>
        ELSE IF id = EmptyId
        THEN <<store, BadRequest("id")>>
        ELSE <<Put(store, id, next), KvHitResponse(id, type, next, t)>>

\* ------------------------------------------------------------ /counts
EmptyMap == [k \in {} |-> 0]
\* play[id] = v on the object literal {}: the key "__proto__" names the
\* accessor of Object.prototype, whose setter ignores a number and adds no
\* property, so that JSON.stringify writes no entry for it.
Assign(map, id, v) ==
    IF id = ProtoId THEN map
    ELSE [k \in DOMAIN map \cup {id} |-> IF k = id THEN v ELSE map[k]]

\* The body `counts` of a /counts response.
CountsBody(type, play, download) ==
    IF type = "play" THEN play
    ELSE IF type = "download" THEN download
    ELSE [play |-> play, download |-> download]

CountsResponse(type, play, download) ==
    [status |-> 200, ok |-> TRUE, type |-> type,
     counts |-> CountsBody(type, play, download)]

\* for (const id of chunk) of the SQLite routeCounts: `found` holds the rows
\* the SELECT ... WHERE id IN (chunk) returned.
RECURSIVE SqlAssignChunk(_, _, _, _, _)
SqlAssignChunk(table, chunk, k, type, acc) ==
    IF k > Len(chunk) THEN acc
    ELSE LET id == chunk[k]
             v == IF Has(table, id) THEN [pl |-> table[id].pl, dl |-> table[id].dl]
                  ELSE [pl |-> 0, dl |-> 0]
             next == [play |-> IF type # "download"
                               THEN Assign(acc.play, id, v.pl) ELSE acc.play,
                      download |-> IF type # "play"
                                   THEN Assign(acc.download, id, v.dl)
                                   ELSE acc.download]
         IN SqlAssignChunk(table, chunk, k + 1, type, next)

\* chunk = ids.slice(i, i + SQL_IN_CHUNK): the ids of one SELECT ... IN (...).
SqlChunk(ids, i, chunkSize) == SubSeq(ids, i + 1, Min(i + chunkSize, Len(ids)))

\* Mutant: the loop steps over the id after each chunk.
RECURSIVE SqlCountsLoopSkipsBoundary(_, _, _, _, _, _)
SqlCountsLoopSkipsBoundary(table, ids, i, type, acc, chunkSize) ==
    IF i >= Len(ids) THEN acc
    ELSE SqlCountsLoopSkipsBoundary(
             table, ids, i + chunkSize + 1, type,
             SqlAssignChunk(table, SqlChunk(ids, i, chunkSize), 1, type, acc),
             chunkSize)

\* for (let i = 0; i < ids.length; i += SQL_IN_CHUNK) of the SQLite routeCounts.
RECURSIVE SqlCountsLoop(_, _, _, _, _, _)
SqlCountsLoop(table, ids, i, type, acc, chunkSize) ==
    IF i >= Len(ids) THEN acc
    ELSE SqlCountsLoop(table, ids, i + chunkSize, type,
                       SqlAssignChunk(table, SqlChunk(ids, i, chunkSize), 1,
                                      type, acc),
                       chunkSize)

\* routeCounts of the SQLite variant with MAX_IDS_POST = maxCount and
\* SQL_IN_CHUNK = chunkSize: the response.
SqlCounts(table, body, maxCount, chunkSize) ==
    LET type == normalizeType(body.type)
        ids == sanitizeIds(body.ids, maxCount)
        acc == SqlCountsLoop(table, ids, 0, type,
                             [play |-> EmptyMap, download |-> EmptyMap],
                             chunkSize)
    IN  IF type = "null" THEN BadRequest("type")
        ELSE IF Len(ids) = 0 THEN CountsResponse(type, EmptyMap, EmptyMap)
        ELSE CountsResponse(type, acc.play, acc.download)

\* routeCounts of the SQLite variant: the response.
SqlRouteCounts(table, body) == SqlCounts(table, body, MAX_IDS_POST, SQL_IN_CHUNK)

\* for (const id of ids) of the KV routeCounts over map = storage.get(ids).
RECURSIVE KvCountsLoop(_, _, _, _, _)
KvCountsLoop(store, ids, k, type, acc) ==
    IF k > Len(ids) THEN acc
    ELSE LET id == ids[k]
             pl == IF Has(store, id) THEN store[id].pl ELSE 0
             dl == IF Has(store, id) THEN store[id].dl ELSE 0
             next == [play |-> IF type # "download"
                               THEN Assign(acc.play, id, pl) ELSE acc.play,
                      download |-> IF type # "play"
                                   THEN Assign(acc.download, id, dl)
                                   ELSE acc.download]
         IN KvCountsLoop(store, ids, k + 1, type, next)

\* routeCounts of the KV variant with MAX_IDS_POST = maxCount: the response.
KvCounts(store, body, maxCount) ==
    LET type == normalizeType(body.type)
        ids == sanitizeIds(body.ids, maxCount)
        acc == KvCountsLoop(store, ids, 1, type,
                            [play |-> EmptyMap, download |-> EmptyMap])
    IN  IF type = "null" THEN BadRequest("type")
        ELSE IF Len(ids) = 0 THEN CountsResponse(type, EmptyMap, EmptyMap)
        ELSE CountsResponse(type, acc.play, acc.download)

\* routeCounts of the KV variant: the response.
KvRouteCounts(store, body) == KvCounts(store, body, MAX_IDS_POST)

\* --------------------------------------------------------------- /top
\* normalizeType(url.searchParams.get("type") || "download") || "download"
topType(param) ==
    LET t == normalizeType(IF param = "" THEN "download" ELSE param)
    IN IF t = "null" THEN "download" ELSE t

\* The number NaN, which Math.max and Math.min hand on.
NaN == -1000

\* The limit parameter of a /top URL: absent, an integer literal n, or a
\* text that is no number.
AbsentParam == [kind |-> "absent", n |-> 0]
IntParam(n) == [kind |-> "int", n |-> n]
TextParam == [kind |-> "text", n |-> 0]

\* Number(url.searchParams.get("limit") || "10")
limitNumber(p) ==
    IF p.kind = "absent" THEN 10
    ELSE IF p.kind = "int" THEN p.n
    ELSE NaN

\* Math.min(TOP_LIMIT_MAX, Math.max(1, l)) on the number l.
topLimit(l) == IF l = NaN THEN NaN ELSE Min(TOP_LIMIT_MAX, Max(1, l))

\* Math.max(0, Number(cursorRaw)) on an integer cursor.
topOffset(c) == Max(0, c)

\* String(offset + limit), read back by Number(cursorRaw): exact on integers.
\* Mutant: the cursor handed out skips one entry.
CursorStringSkipsOne(n) == n + 1

\* Mutant: the cursor handed out points at the last entry of the page.
CursorStringRepeatsOne(n) == n - 1

CursorString(n) == n

\* rows.slice(from, to) with 0-based bounds, as JavaScript clips them.
Slice(seq, from, to) ==
    IF from >= Len(seq) THEN <<>>
    ELSE SubSeq(seq, from + 1, Min(to, Len(seq)))

\* Mutant: a row reports the play count for either metric.
TopRowCountsPlay(type, id, rec) ==
    [id |-> id, title |-> rec.title, file_name |-> rec.file_name,
     type |-> IF type = "play" THEN "play" ELSE "download",
     count |-> rec.pl,
     updatedAt |-> rec.updatedAt]

TopRow(type, id, rec) ==
    [id |-> id, title |-> rec.title, file_name |-> rec.file_name,
     type |-> IF type = "play" THEN "play" ELSE "download",
     count |-> IF type = "play" THEN rec.pl ELSE rec.dl,
     updatedAt |-> rec.updatedAt]

TopResponse(type, limit, nextCursor, page) ==
    [status |-> 200, ok |-> TRUE,
     type |-> IF type = "play" THEN "play" ELSE "download",
     limit |-> limit, cursor |-> nextCursor, rows |-> page]

\* ORDER BY orderCol DESC, updatedAt DESC, id ASC: a before b.
SqlOrderBefore(table, type, a, b) ==
    LET ca == IF type = "play" THEN table[a].pl ELSE table[a].dl
        cb == IF type = "play" THEN table[b].pl ELSE table[b].dl
    IN  \/ ca > cb
        \/ ca = cb /\ table[a].updatedAt > table[b].updatedAt
        \/ ca = cb /\ table[a].updatedAt = table[b].updatedAt /\ a < b

\* The ids of table counters in the ORDER BY order of routeTop.
RECURSIVE SqlOrdered(_, _, _)
SqlOrdered(table, type, left) ==
    IF left = {} THEN <<>>
    ELSE LET first == CHOOSE a \in left :
                         \A b \in left \ {a} : SqlOrderBefore(table, type, a, b)
         IN <<first>> \o SqlOrdered(table, type, left \ {first})

\* Mutant: the query reads a view cut to TOP_CAP rows.
SqlSelectTopCapped(table, type, lim, off) ==
    LET all == SqlOrdered(table, type, DOMAIN table)
    IN Slice(SubSeq(all, 1, Min(TOP_CAP, Len(all))), off, off + lim)

\* SELECT ... ORDER BY ... LIMIT lim OFFSET off
SqlSelectTop(table, type, lim, off) ==
    Slice(SqlOrdered(table, type, DOMAIN table), off, off + lim)

\* routeTop of the SQLite variant: the response.
SqlRouteTop(table, query) ==
    LET type == topType(query.type)
        limit == topLimit(query.limit)
        offset == topOffset(query.cursor)
        rows == SqlSelectTop(table, type, limit + 1, offset)
        page == [k \in 1..Min(limit, Len(rows)) |->
                    TopRow(type, rows[k], table[rows[k]])]
        nextCursor == IF Len(rows) > limit THEN CursorString(offset + limit)
                      ELSE Null
    IN  \* LIMIT NaN: the parameter is bound as NULL, the statement fails
        \* with a datatype mismatch and fetch answers for the exception.
        IF limit = NaN THEN InternalError
        ELSE TopResponse(type, limit, nextCursor, page)

\* storage.list(): the keys in ascending byte order.
RECURSIVE KvList(_)
KvList(keys) ==
    IF keys = {} THEN <<>>
    ELSE LET k == CHOOSE a \in keys : \A b \in keys : a <= b
         IN <<k>> \o KvList(keys \ {k})

\* Mutant: the comparator forgets updatedAt.
KvCompareNoUpdatedAt(store, type, a, b) ==
    LET ca == IF type = "play" THEN store[a].pl ELSE store[a].dl
        cb == IF type = "play" THEN store[b].pl ELSE store[b].dl
    IN  IF cb # ca THEN cb - ca ELSE LocaleCompare(a, b)

\* The comparator routeTop hands to rows.sort: negative puts a first.
KvCompare(store, type, a, b) ==
    LET ca == IF type = "play" THEN store[a].pl ELSE store[a].dl
        cb == IF type = "play" THEN store[b].pl ELSE store[b].dl
    IN  IF cb # ca THEN cb - ca
        ELSE IF store[b].updatedAt # store[a].updatedAt
        THEN store[b].updatedAt - store[a].updatedAt
        ELSE LocaleCompare(a, b)

\* Array.prototype.sort is stable: x goes behind every element that does
\* not compare greater than it.
KvInsert(store, type, sorted, x) ==
    LET n == Cardinality({k \in 1..Len(sorted) :
                             KvCompare(store, type, sorted[k], x) <= 0})
    IN SubSeq(sorted, 1, n) \o <<x>> \o SubSeq(sorted, n + 1, Len(sorted))

RECURSIVE KvSortFrom(_, _, _, _)
KvSortFrom(store, type, rows, sorted) ==
    IF rows = <<>> THEN sorted
    ELSE KvSortFrom(store, type, Tail(rows),
                    KvInsert(store, type, sorted, Head(rows)))

\* rows after rows.sort(...) in routeTop of the KV variant, as ids.
KvSorted(store, type) == KvSortFrom(store, type, KvList(DOMAIN store), <<>>)

\* Mutant: a cursor is returned also when the page ends the list.
KvRouteTopCursorAtEnd(store, query) ==
    LET type == topType(query.type)
        limit == topLimit(query.limit)
        offset == topOffset(query.cursor)
        rows == KvSorted(store, type)
        slice == Slice(rows, offset, offset + limit)
        page == [k \in 1..Len(slice) |-> TopRow(type, slice[k], store[slice[k]])]
        nextCursor == IF offset + limit <= Len(rows)
                      THEN CursorString(offset + limit) ELSE Null
    IN TopResponse(type, limit, nextCursor, page)

\* routeTop of the KV variant: the response.
KvRouteTop(store, query) ==
    LET type == topType(query.type)
        limit == topLimit(query.limit)
        offset == topOffset(query.cursor)
        rows == KvSorted(store, type)
        slice == Slice(rows, offset, offset + limit)
        page == [k \in 1..Len(slice) |-> TopRow(type, slice[k], store[slice[k]])]
        nextCursor == IF offset + limit < Len(rows)
                      THEN CursorString(offset + limit) ELSE Null
    IN  \* offset + NaN is NaN: slice(offset, NaN) is empty and NaN < length
        \* is false.
        IF limit = NaN THEN TopResponse(type, NaN, Null, <<>>)
        ELSE TopResponse(type, limit, nextCursor, page)

\* ------------------------------------------------------------- /reset
Unauthorized(sec) ==
    [status |-> 401, ok |-> FALSE,
     error |-> IF sec # "" THEN "Unauthorized" ELSE "ADMIN_TOKEN secret missing"]

\* routeReset of the SQLite variant: <<table after, response>>.
SqlRouteReset(table, token, sec, body) ==
    LET id == sanitizeId(body.id) IN
    IF ~requireAdmin(token, sec) THEN <<table, Unauthorized(sec)>>
    ELSE IF body.mode = "id"
    THEN IF id = EmptyId THEN <<table, BadRequest("id")>>
         ELSE <<Delete(table, id),
                [status |-> 200, ok |-> TRUE, mode |-> "id", deleted |-> 1,
                 id |-> id]>>
    ELSE IF body.mode = "all"
    THEN <<EmptyStore,
           [status |-> 200, ok |-> TRUE, mode |-> "all",
            deleted |-> Cardinality(DOMAIN table)]>>
    ELSE <<table, BadRequest("mode")>>

\* routeReset of the KV variant: <<store after, response>>.
KvRouteReset(store, token, sec, body) ==
    LET id == sanitizeId(body.id) IN
    IF ~requireAdmin(token, sec) THEN <<store, Unauthorized(sec)>>
    ELSE IF body.mode = "id"
    THEN IF id = EmptyId THEN <<store, BadRequest("id")>>
         ELSE <<Delete(store, id),
                [status |-> 200, ok |-> TRUE, mode |-> "id", id |-> id]>>
    ELSE IF body.mode = "all"
    THEN <<EmptyStore, [status |-> 200, ok |-> TRUE, mode |-> "all"]>>
    ELSE <<store, BadRequest("mode")>>

\* ------------------------------------------------------------- inputs
Kinds == {"play", "download"}
HitTypes == {"play", "download", "both", "bogus"}
RawIdsUpTo(n) ==
    {RawId(i, FALSE) : i \in 0..n}
        \cup {RawId(LongId, FALSE), RawId(1, TRUE), RawId(ProtoId, FALSE)}
RawIds == RawIdsUpTo(NumIds)
TitleInputs == {Undefined, EmptyStr, Str("A", 1), Str("T", MAX_TITLE_LEN + 1)}
FileInputs == {EmptyStr, Str("f", 1), Str("F", MAX_FILE_LEN + 1)}
Tokens == {"", "s3cret", "guess"}
Secrets == {"", "s3cret"}
ResetModes == {"all", "id", "bogus"}
TopTypes == {"", "play", "both"}
LimitInputs == 0..MaxLimit \cup {TOP_LIMIT_MAX + 1}
CursorInputs == -1..NumIds
RECURSIVE SeqsUpTo(_, _)
SeqsUpTo(S, n) ==
    IF n = 0 THEN {<<>>}
    ELSE LET shorter == SeqsUpTo(S, n - 1)
         IN shorter \cup {Append(q, x) : q \in shorter, x \in S}
BulkInputs == SeqsUpTo(RawIds, MaxBulk)

\* ------------------------------------------------------------ history
\* The operation a /hit body asks for: its kind and id when both are valid.
HitValid(body) == body.type \in {"play", "download"} /\ body.id.id \in Ids

\* The bounded-length display string a supplied value stands for.
Bounded(s, n) ==
    IF s.type # "string" THEN EmptyStr
    ELSE IF s.len > n THEN [s EXCEPT !.len = n] ELSE s

HitTotal == LET RECURSIVE Sum(_)
                Sum(S) == IF S = {} THEN 0
                          ELSE LET i == CHOOSE x \in S : TRUE
                               IN hits[i].play + hits[i].download + Sum(S \ {i})
            IN Sum(Ids)

NoHits == [i \in Ids |-> [play |-> 0, download |-> 0]]
NoWalk == [active |-> FALSE]
Conns == 1..MaxReq
Idle == [pc |-> "idle"]

\* A write was handled while the client followed cursors.
Interrupted(w) == IF w.active THEN [w EXCEPT !.clean = FALSE] ELSE w
NoResp == [op |-> "none"]

Init ==
    /\ sqlTable = EmptyStore
    /\ kvStore = EmptyStore
    /\ now = 1
    /\ secret \in Secrets
    /\ resp = NoResp
    /\ hits = NoHits
    /\ lastTitle = [i \in Ids |-> EmptyStr]
    /\ lastFile = [i \in Ids |-> EmptyStr]
    /\ wasReset = {}
    /\ everHit = {}
    /\ allReset = FALSE
    /\ walk = NoWalk
    /\ reqs = [c \in Conns |-> Idle]
    /\ overlap = FALSE

\* The history variables after the hit `body` asks for.
HitHistory(body) ==
    LET id == body.id.id
        title == Bounded(body.title, MAX_TITLE_LEN)
        file == Bounded(body.file_name, MAX_FILE_LEN)
    IN  IF HitValid(body)
        THEN /\ hits' = [hits EXCEPT ![id][body.type] = @ + 1]
             /\ lastTitle' = [lastTitle EXCEPT
                                ![id] = IF title # EmptyStr THEN title ELSE @]
             /\ lastFile' = [lastFile EXCEPT
                               ![id] = IF file # EmptyStr THEN file ELSE @]
             /\ wasReset' = wasReset \ {id}
             /\ everHit' = everHit \cup {id}
             /\ allReset' = FALSE
        ELSE UNCHANGED <<hits, lastTitle, lastFile, wasReset, everHit, allReset>>

\* POST /hit, handled by both variants at the same Date.now() = t.
Hit(body, t) ==
    /\ LET s == SqlRouteHit(sqlTable, body, t)
           k == KvRouteHit(kvStore, body, t)
       IN /\ sqlTable' = s[1]
          /\ kvStore' = k[1]
          /\ resp' = [op |-> "hit", title |-> body.title,
                      file_name |-> body.file_name, sql |-> s[2], kv |-> k[2]]
    /\ now' = t
    /\ HitHistory(body)
    /\ walk' = Interrupted(walk)
    /\ UNCHANGED <<secret, reqs, overlap>>

\* The history variables after a reset the guard lets through.
ResetHistory(token, body) ==
    LET id == body.id.id IN
    IF token # "" /\ token = secret /\ body.mode = "id" /\ id \in Ids
    THEN /\ hits' = [hits EXCEPT ![id] = [play |-> 0, download |-> 0]]
         /\ lastTitle' = [lastTitle EXCEPT ![id] = EmptyStr]
         /\ lastFile' = [lastFile EXCEPT ![id] = EmptyStr]
         /\ wasReset' = wasReset \cup {id}
         /\ UNCHANGED <<everHit, allReset>>
    ELSE IF token # "" /\ token = secret /\ body.mode = "all"
    THEN /\ hits' = NoHits
         /\ lastTitle' = [i \in Ids |-> EmptyStr]
         /\ lastFile' = [i \in Ids |-> EmptyStr]
         /\ allReset' = TRUE
         /\ UNCHANGED <<everHit, wasReset>>
    ELSE UNCHANGED <<hits, lastTitle, lastFile, wasReset, everHit, allReset>>

\* POST /reset, handled by both variants.
Reset(token, body) ==
    /\ LET s == SqlRouteReset(sqlTable, token, secret, body)
           k == KvRouteReset(kvStore, token, secret, body)
       IN /\ sqlTable' = s[1]
          /\ kvStore' = k[1]
          /\ resp' = [op |-> "reset", sql |-> s[2], kv |-> k[2]]
    /\ ResetHistory(token, body)
    /\ walk' = Interrupted(walk)
    /\ UNCHANGED <<now, secret, reqs, overlap>>

\* POST /counts, handled by both variants.
Counts(body) ==
    /\ resp' = [op |-> "counts",
                sql |-> SqlRouteCounts(sqlTable, body),
                kv |-> KvRouteCounts(kvStore, body)]
    /\ UNCHANGED <<sqlTable, kvStore, now, secret, hits, lastTitle, lastFile,
                   wasReset, everHit, allReset, walk, reqs, overlap>>

\* GET /top, handled by both variants.
Top(query) ==
    /\ resp' = [op |-> "top", cursor |-> query.cursor,
                sql |-> SqlRouteTop(sqlTable, query),
                kv |-> KvRouteTop(kvStore, query)]
    /\ UNCHANGED <<sqlTable, kvStore, now, secret, hits, lastTitle, lastFile,
                   wasReset, everHit, allReset, walk, reqs, overlap>>

\* Date.now() does not go back; the model stops the clock at `last`.
TimesUpTo(last) == {t \in {now, now + 1} : t <= last}

\* A valid hit is taken while fewer than `most` hits are counted.
Room(body, most) == HitValid(body) => HitTotal < most

HitAny ==
    \E ty \in HitTypes, r \in RawIdsUpTo(StoreIds),
       ti \in {Undefined, Str("A", 1)}, t \in TimesUpTo(StoreTime) :
        LET body == [type |-> ty, id |-> r, title |-> ti, file_name |-> EmptyStr]
        IN Room(body, StoreHits) /\ Hit(body, t)

ResetAll == \E tok \in Tokens : Reset(tok, [mode |-> "all", id |-> RawId(EmptyId, FALSE)])

ResetOne ==
    \E tok \in Tokens, r \in RawIdsUpTo(StoreIds) : Reset(tok, [mode |-> "id", id |-> r])

ResetBogus == \E tok \in Tokens : Reset(tok, [mode |-> "bogus", id |-> RawId(EmptyId, FALSE)])

Next == HitAny \/ ResetAll \/ ResetOne \/ ResetBogus

\* Every /hit and /reset request, one at a time.
Spec == Init /\ [][Next]_vars

\* ------------------------------------------- the read handlers at work
\* A /hit with a valid kind and id and no title, as the players send it.
HitPlainUpTo(n, most, last) ==
    \E ty \in Kinds, i \in 1..n, t \in TimesUpTo(last) :
        LET body == [type |-> ty, id |-> RawId(i, FALSE), title |-> Undefined,
                     file_name |-> EmptyStr]
        IN Room(body, most) /\ Hit(body, t)

HitPlain == HitPlainUpTo(NumIds, MaxHits, MaxTime)

HitPlainStore == HitPlainUpTo(StoreIds, StoreHits, StoreTime)

ResetOneOk ==
    \E i \in 1..StoreIds : Reset("s3cret", [mode |-> "id", id |-> RawId(i, FALSE)])

ResetAllOk == Reset("s3cret", [mode |-> "all", id |-> RawId(EmptyId, FALSE)])

TopAny ==
    \E ty \in TopTypes, l \in LimitInputs, c \in CursorInputs :
        Top([type |-> ty, limit |-> l, cursor |-> c])

CountsAny ==
    \E ty \in {"play", "download", "both", "bogus"}, ids \in BulkInputs :
        Counts([type |-> ty, ids |-> ids])

\* A /hit with a valid kind and id and any title and file name.
HitTitled ==
    \E ty \in Kinds, i \in 1..TitleIds, ti \in TitleInputs, f \in FileInputs,
       t \in TimesUpTo(StoreTime) :
        LET body == [type |-> ty, id |-> RawId(i, FALSE), title |-> ti,
                     file_name |-> f]
        IN Room(body, StoreHits) /\ Hit(body, t)

ResetTitled ==
    \E i \in 1..TitleIds : Reset("s3cret", [mode |-> "id", id |-> RawId(i, FALSE)])

NextTitle == HitTitled \/ ResetTitled \/ ResetAllOk

\* Hits that carry titles and file names, and resets.
SpecTitle == Init /\ [][NextTitle]_vars

NextTop == HitPlain \/ TopAny

\* /top requests between hits.
SpecTop == Init /\ [][NextTop]_vars

NextCounts == HitPlainStore \/ ResetOneOk \/ ResetAllOk \/ CountsAny

\* /counts requests between hits and resets.
SpecCounts == Init /\ [][NextCounts]_vars

\* ---------------------------------------------------------- properties

BothReq(id) == [type |-> "both", ids |-> <<RawId(id, FALSE)>>]
KindReq(kind, id) == [type |-> kind, ids |-> <<RawId(id, FALSE)>>]

\* The count a /counts response reports for id and kind; Null when it
\* reports none.
Reported(r, kind, id) ==
    IF r.status # 200 THEN Null
    ELSE IF r.type = "both"
    THEN IF id \in DOMAIN r.counts[kind] THEN r.counts[kind][id] ELSE Null
    ELSE IF r.type = kind /\ id \in DOMAIN r.counts THEN r.counts[id]
    ELSE Null

\* The ids a /counts response answers for.
Answered(r) ==
    IF r.status # 200 THEN {}
    ELSE IF r.type = "both" THEN DOMAIN r.counts.play \cup DOMAIN r.counts.download
    ELSE DOMAIN r.counts

AnswerKinds(r) == IF r.type = "both" THEN Kinds ELSE {r.type}

\* The counts /counts reports for the ids of S are the hits since the reset.
CountsEqualHitsOn(S) ==
    /\ \A id \in S, kind \in Kinds :
        /\ Reported(SqlRouteCounts(sqlTable, BothReq(id)), kind, id) = hits[id][kind]
        /\ Reported(KvRouteCounts(kvStore, BothReq(id)), kind, id) = hits[id][kind]
        /\ Reported(SqlRouteCounts(sqlTable, KindReq(kind, id)), kind, id)
               = hits[id][kind]
        /\ Reported(KvRouteCounts(kvStore, KindReq(kind, id)), kind, id)
               = hits[id][kind]
    /\ resp.op = "counts" =>
        \A v \in {"sql", "kv"} : \A id \in Answered(resp[v]) :
            \A kind \in AnswerKinds(resp[v]) :
                Reported(resp[v], kind, id) = hits[id][kind]

\* C1: for every id, the play and the download count bulkCounts reports
\* equal the number of hits of that kind on the id since the last reset
\* that affected it, in both variants, whatever the order of the hits.
C1_CountsEqualHitsSinceReset == CountsEqualHitsOn(Ids)

\* The same for every id but "__proto__".
CountsEqualHitsButProto == CountsEqualHitsOn(Ids \ {ProtoId})

\* C1 witness: /counts answers 1 play and 1 download for id 1, and 0 for
\* id 2, which was hit and then reset.
C1_Witness ==
    /\ resp.op = "counts"
    /\ resp.sql.status = 200 /\ resp.sql.type = "both"
    /\ Reported(resp.sql, "play", 1) = 1
    /\ Reported(resp.sql, "download", 1) = 1
    /\ Reported(resp.kv, "play", 2) = 0
    /\ 2 \in wasReset /\ 2 \in everHit

\* /counts answers 0 for the requested ids of S that have no counter.
AbsentIdCountsZeroOn(S) ==
    /\ \A ty \in Kinds \cup {"both"}, ids \in BulkInputs :
        LET body == [type |-> ty, ids |-> ids]
            s == SqlRouteCounts(sqlTable, body)
            k == KvRouteCounts(kvStore, body)
        IN /\ s.status = 200 /\ k.status = 200
           /\ \A n \in 1..Len(ids) : \A kind \in AnswerKinds(s) :
                LET id == ids[n].id IN
                /\ (id \in S /\ ~Has(sqlTable, id)) => Reported(s, kind, id) = 0
                /\ (id \in S /\ ~Has(kvStore, id)) => Reported(k, kind, id) = 0
    /\ resp.op = "counts" =>
        /\ \A id \in Answered(resp.sql) \ DOMAIN sqlTable :
              \A kind \in AnswerKinds(resp.sql) : Reported(resp.sql, kind, id) = 0
        /\ \A id \in Answered(resp.kv) \ DOMAIN kvStore :
              \A kind \in AnswerKinds(resp.kv) : Reported(resp.kv, kind, id) = 0

\* C9: bulkCounts answers 0 for every requested kind, and never an error or a
\* missing entry, for each requested id that has no counter in the store.
C9_AbsentIdCountsZero == AbsentIdCountsZeroOn(Ids)

\* The same for every valid id but "__proto__".
AbsentIdCountsZeroButProto == AbsentIdCountsZeroOn(Ids \ {ProtoId})

\* C9 witness: one /counts answer holds 0 for id 3, never hit, and for
\* id 2, hit and reset, while id 1 has a counter.
C9_Witness ==
    /\ resp.op = "counts" /\ resp.sql.status = 200 /\ resp.kv.status = 200
    /\ Answered(resp.sql) = {2, 3} /\ Answered(resp.kv) = {2, 3}
    /\ Reported(resp.sql, "play", 3) = 0 /\ Reported(resp.kv, "play", 2) = 0
    /\ 3 \notin everHit /\ 2 \in everHit /\ 2 \in wasReset
    /\ Has(sqlTable, 1) /\ Has(kvStore, 1)

TopQueries ==
    [type : TopTypes, limit : LimitInputs, cursor : CursorInputs]

\* The ids on the page of a /top response.
RowIds(r) == {r.rows[k].id : k \in 1..Len(r.rows)}

\* The ids of S that were reset count 0 and are on no page.
ResetOneClearsIdOn(S) ==
    \A id \in wasReset \cap S :
        /\ \A kind \in Kinds :
            /\ Reported(SqlRouteCounts(sqlTable, BothReq(id)), kind, id) = 0
            /\ Reported(KvRouteCounts(kvStore, BothReq(id)), kind, id) = 0
            /\ Reported(SqlRouteCounts(sqlTable, KindReq(kind, id)), kind, id) = 0
            /\ Reported(KvRouteCounts(kvStore, KindReq(kind, id)), kind, id) = 0
        /\ \A q \in TopQueries :
            /\ id \notin RowIds(SqlRouteTop(sqlTable, q))
            /\ id \notin RowIds(KvRouteTop(kvStore, q))

\* C7: after resetOne(id) and until id is hit again, bulkCounts reports 0
\* for id for every kind and no page of any metric's top list holds id.
C7_ResetOneClearsId == ResetOneClearsIdOn(Ids)

\* The same for every id but "__proto__".
ResetOneClearsIdButProto == ResetOneClearsIdOn(Ids \ {ProtoId})

\* C7 witness: the last request reset id 1, which had hits, and id 2 is
\* still on the top list.
C7_Witness ==
    /\ resp.op = "reset" /\ resp.sql.status = 200 /\ resp.kv.status = 200
    /\ resp.sql.mode = "id" /\ resp.sql.id = 1
    /\ 1 \in wasReset /\ 1 \in everHit
    /\ Has(sqlTable, 2) /\ Has(kvStore, 2)

\* After a resetAll the ids of S count 0 and every page is empty.
ResetAllClearsAllOn(S) ==
    allReset =>
        /\ \A id \in everHit \cap S : \A kind \in Kinds :
            /\ Reported(SqlRouteCounts(sqlTable, BothReq(id)), kind, id) = 0
            /\ Reported(KvRouteCounts(kvStore, BothReq(id)), kind, id) = 0
        /\ \A q \in TopQueries :
            LET s == SqlRouteTop(sqlTable, q)
                k == KvRouteTop(kvStore, q)
            IN /\ s.rows = <<>> /\ s.cursor = Null
               /\ k.rows = <<>> /\ k.cursor = Null

\* C8: after resetAll and until the next hit, bulkCounts reports 0 for
\* every id hit before and topPage returns an empty page with a null
\* cursor for every metric.
C8_ResetAllClearsAll == ResetAllClearsAllOn(Ids)

\* The same for every id but "__proto__".
ResetAllClearsAllButProto == ResetAllClearsAllOn(Ids \ {ProtoId})

\* C8 witness: the last request was a resetAll that deleted two counters.
C8_Witness ==
    /\ resp.op = "reset" /\ resp.sql.status = 200 /\ resp.kv.status = 200
    /\ resp.sql.mode = "all" /\ resp.sql.deleted = 2
    /\ allReset /\ everHit = {1, 2}

\* C10: the stored title of an id is the most recent non-empty title a
\* hit supplied since the id's last reset, empty if there was none; a hit
\* with an empty or missing title leaves a stored title alone.  The same
\* holds for the file name.
C10_TitleKeepsLastNonEmpty ==
    /\ \A id \in Ids :
        /\ Has(sqlTable, id) => /\ sqlTable[id].title = lastTitle[id]
                                /\ sqlTable[id].file_name = lastFile[id]
        /\ Has(kvStore, id) => /\ kvStore[id].title = lastTitle[id]
                               /\ kvStore[id].file_name = lastFile[id]
        /\ hits[id].play + hits[id].download > 0 =>
               Has(sqlTable, id) /\ Has(kvStore, id)
    /\ (resp.op = "hit" /\ resp.sql.status = 200) =>
        /\ resp.sql.title = lastTitle[resp.sql.id]
        /\ resp.sql.file_name = lastFile[resp.sql.id]
    /\ (resp.op = "hit" /\ resp.kv.status = 200) =>
        /\ resp.kv.title = lastTitle[resp.kv.id]
        /\ resp.kv.file_name = lastFile[resp.kv.id]

\* C10 witness: a hit without a title and with an empty file name has just
\* left the title "A" and the truncated file name of id 1 in place.
C10_Witness ==
    /\ resp.op = "hit" /\ resp.sql.status = 200 /\ resp.kv.status = 200
    /\ resp.sql.id = 1 /\ resp.kv.id = 1
    /\ resp.title = Undefined /\ resp.file_name = EmptyStr
    /\ sqlTable[1].title = Str("A", 1) /\ kvStore[1].title = Str("A", 1)
    /\ sqlTable[1].file_name = Str("F", MAX_FILE_LEN)
    /\ kvStore[1].file_name = Str("F", MAX_FILE_LEN)
    /\ hits[1].play + hits[1].download = 2

\* ------------------------------------------------- claims about /top
\* Row a ranks strictly before row b: count descending, updatedAt
\* descending, then id ascending as the variant compares ids (SQLite:
\* BINARY collation, KV: localeCompare).
RankBeforeSql(a, b) ==
    \/ a.count > b.count
    \/ a.count = b.count /\ a.updatedAt > b.updatedAt
    \/ a.count = b.count /\ a.updatedAt = b.updatedAt /\ a.id < b.id

RankBeforeKvCompare(a, b) ==
    \/ a.count > b.count
    \/ a.count = b.count /\ a.updatedAt > b.updatedAt
    \/ a.count = b.count /\ a.updatedAt = b.updatedAt
          /\ LocaleCompare(a.id, b.id) < 0

\* As RankBeforeKvCompare, with ids that localeCompare deems equal ranked
\* by the byte order of the storage keys.
RankBeforeKv(a, b) ==
    \/ RankBeforeKvCompare(a, b)
    \/ a.count = b.count /\ a.updatedAt = b.updatedAt
          /\ LocaleCompare(a.id, b.id) = 0 /\ a.id < b.id

\* The page after the one response r answered, asked with r's cursor.
NextQuery(q, r) == [q EXCEPT !.cursor = r.cursor]

ExpectedIds(view, offset, limit) ==
    [n \in 1..Max(0, Min(limit, Len(view) - offset)) |-> view[offset + n]]

ExpectedCursor(view, offset, limit) ==
    IF Len(view) > offset + limit THEN offset + limit ELSE Null

PageIds(r) == [n \in 1..Len(r.rows) |-> r.rows[n].id]

\* C6: for every metric, offset >= 0 and limit, topPage answers with
\* exactly the entries [offset, offset + limit) of the ordered view, and its
\* cursor is offset + limit if an entry exists at a position >= offset +
\* limit and null otherwise; an offset at or past the end gives an empty
\* page with a null cursor and no error.
C6_PageIsSliceOfView ==
    /\ \A q \in TopQueries :
        LET ty == topType(q.type)
            offset == topOffset(q.cursor)
            limit == topLimit(q.limit)
            sv == SqlOrdered(sqlTable, ty, DOMAIN sqlTable)
            kv == KvSorted(kvStore, ty)
            s == SqlRouteTop(sqlTable, q)
            k == KvRouteTop(kvStore, q)
        IN /\ s.status = 200 /\ k.status = 200
           /\ PageIds(s) = ExpectedIds(sv, offset, limit)
           /\ PageIds(k) = ExpectedIds(kv, offset, limit)
           /\ s.cursor = ExpectedCursor(sv, offset, limit)
           /\ k.cursor = ExpectedCursor(kv, offset, limit)
           /\ \A n \in 1..Len(s.rows) :
                 s.rows[n] = TopRow(ty, s.rows[n].id, sqlTable[s.rows[n].id])
           /\ \A n \in 1..Len(k.rows) :
                 k.rows[n] = TopRow(ty, k.rows[n].id, kvStore[k.rows[n].id])
    /\ resp.op = "top" =>
        LET offset == Max(0, resp.cursor)
            ty == resp.sql.type
            sv == SqlOrdered(sqlTable, ty, DOMAIN sqlTable)
            kv == KvSorted(kvStore, ty)
        IN /\ PageIds(resp.sql) = ExpectedIds(sv, offset, resp.sql.limit)
           /\ PageIds(resp.kv) = ExpectedIds(kv, offset, resp.kv.limit)
           /\ resp.sql.cursor = ExpectedCursor(sv, offset, resp.sql.limit)
           /\ resp.kv.cursor = ExpectedCursor(kv, offset, resp.kv.limit)

\* C6 witness: the second page of the example: with two downloads of one
\* id and one of another, /top with limit 1 at cursor 1 answers the id with
\* one download and a null cursor.
C6_Witness ==
    /\ resp.op = "top" /\ resp.cursor = 1
    /\ resp.sql.type = "download" /\ resp.sql.limit = 1
    /\ Len(resp.sql.rows) = 1 /\ resp.sql.rows[1].count = 1
    /\ Len(resp.kv.rows) = 1 /\ resp.kv.rows[1].count = 1
    /\ resp.sql.cursor = Null /\ resp.kv.cursor = Null
    /\ \E i \in DOMAIN sqlTable : sqlTable[i].dl = 2
    /\ Cardinality(DOMAIN sqlTable) = 2

\* ------------------------------------------- a client following cursors
\* The walk after the next page of variant v is read: the request carries
\* the cursor of the variant's last response.
WalkPage(w, v) ==
    LET q == [type |-> w.type, limit |-> w.limit, cursor |-> w[v].cursor]
        r == IF v = "sql" THEN SqlRouteTop(sqlTable, q) ELSE KvRouteTop(kvStore, q)
    IN  IF w[v].cursor = Null THEN w[v]
        ELSE [cursor |-> r.cursor, ids |-> w[v].ids \o PageIds(r),
              pages |-> w[v].pages + 1]

\* GET /top without a cursor: the first page of a walk.
WalkStart ==
    \E ty \in TopTypes, l \in LimitInputs :
        LET w == [active |-> TRUE, clean |-> TRUE, type |-> ty, limit |-> l,
                  start |-> DOMAIN sqlTable,
                  sql |-> [cursor |-> 0, ids |-> <<>>, pages |-> 0],
                  kv |-> [cursor |-> 0, ids |-> <<>>, pages |-> 0]]
        IN /\ walk' = [w EXCEPT !.sql = WalkPage(w, "sql"), !.kv = WalkPage(w, "kv")]
           /\ UNCHANGED <<sqlTable, kvStore, now, secret, resp, hits, lastTitle,
                          lastFile, wasReset, everHit, allReset, reqs, overlap>>

\* GET /top with the cursor of the last page, while there is one.
WalkStep ==
    /\ walk.active
    /\ walk.sql.cursor # Null \/ walk.kv.cursor # Null
    /\ walk' = [walk EXCEPT !.sql = WalkPage(walk, "sql"),
                            !.kv = WalkPage(walk, "kv")]
    /\ UNCHANGED <<sqlTable, kvStore, now, secret, resp, hits, lastTitle,
                   lastFile, wasReset, everHit, allReset, reqs, overlap>>

HitWalk == HitPlainUpTo(NumIds, MaxHits, StoreTime)

NextWalk == HitWalk \/ WalkStart \/ WalkStep

\* Clients that follow the cursors of /top, between hits.
SpecWalk == Init /\ [][NextWalk]_vars

\* The ranked view of a variant for the metric of the walk.
WalkView(v) ==
    IF v = "sql" THEN SqlOrdered(sqlTable, topType(walk.type), DOMAIN sqlTable)
    ELSE KvSorted(kvStore, topType(walk.type))

NoTwice(ids) == \A m, n \in 1..Len(ids) : ids[m] = ids[n] => m = n

GateAlwaysOpen(c) == TRUE

GateOpen(c) == \A o \in Conns \ {c} : reqs[o].pc \notin {"get", "put"}

SameCounter(a, b) == a.type = b.type /\ a.id = b.id

\* A /hit request arrives on connection c; its body is being read.
ConcArrive ==
    \E c \in Conns, ty \in Kinds, i \in 1..StoreIds :
        LET body == [type |-> ty, id |-> RawId(i, FALSE), title |-> Undefined,
                     file_name |-> EmptyStr]
        IN /\ reqs[c] = Idle
           /\ HitTotal + Cardinality({o \in Conns : reqs[o].pc = "body"}) < StoreHits
           /\ reqs' = [reqs EXCEPT ![c] = [pc |-> "body", body |-> body]]
           /\ overlap' = (overlap \/ \E o \in Conns \ {c} :
                             reqs[o] # Idle /\ SameCounter(reqs[o].body, body))
           /\ UNCHANGED <<sqlTable, kvStore, now, secret, resp, hits, lastTitle,
                          lastFile, wasReset, everHit, allReset, walk>>

\* The body is read and routeHit runs: the SQLite variant to its end, the
\* KV variant to its await of storage.get.
ConcHandle ==
    \E c \in Conns, t \in TimesUpTo(StoreTime) :
        /\ reqs[c].pc = "body"
        /\ GateOpen(c)
        /\ LET s == SqlRouteHit(sqlTable, reqs[c].body, t)
           IN /\ sqlTable' = s[1]
              /\ resp' = [op |-> "hit-sql", sql |-> s[2]]
        /\ now' = t
        /\ HitHistory(reqs[c].body)
        /\ reqs' = [reqs EXCEPT ![c] = [pc |-> "get", body |-> @.body, t |-> t]]
        /\ UNCHANGED <<kvStore, secret, walk, overlap>>

\* storage.get answers: routeHit of the KV variant computes next and awaits
\* storage.put.
ConcGetDone ==
    \E c \in Conns :
        /\ reqs[c].pc = "get"
        /\ LET body == reqs[c].body
               next == KvNext(KvPrev(kvStore, sanitizeId(body.id)),
                              normalizeType(body.type),
                              clampStr(body.title, MAX_TITLE_LEN),
                              clampStr(body.file_name, MAX_FILE_LEN), reqs[c].t)
           IN reqs' = [reqs EXCEPT ![c] = [pc |-> "put", body |-> body,
                                            t |-> @.t, next |-> next]]
        /\ UNCHANGED <<sqlTable, kvStore, now, secret, resp, hits, lastTitle,
                       lastFile, wasReset, everHit, allReset, walk, overlap>>

\* storage.put is done: routeHit of the KV variant responds.
ConcPutDone ==
    \E c \in Conns :
        /\ reqs[c].pc = "put"
        /\ LET id == sanitizeId(reqs[c].body.id)
               type == normalizeType(reqs[c].body.type)
           IN /\ kvStore' = Put(kvStore, id, reqs[c].next)
              /\ resp' = [op |-> "hit-kv",
                          kv |-> KvHitResponse(id, type, reqs[c].next, reqs[c].t)]
        /\ reqs' = [reqs EXCEPT ![c] = Idle]
        /\ UNCHANGED <<sqlTable, now, secret, hits, lastTitle, lastFile,
                       wasReset, everHit, allReset, walk, overlap>>

NextConc == ConcArrive \/ ConcHandle \/ ConcGetDone \/ ConcPutDone

\* /hit requests whose handling overlaps.
SpecConc == Init /\ [][NextConc]_vars

\* The requests for id and kind whose storage.put is still to come.
Pending(id, kind) ==
    {c \in Conns : /\ reqs[c].pc \in {"get", "put"}
                   /\ reqs[c].body.type = kind /\ reqs[c].body.id.id = id}

StoredCount(store, id, kind) ==
    IF ~Has(store, id) THEN 0
    ELSE IF kind = "play" THEN store[id].pl ELSE store[id].dl

\* C2: the read-modify-write of a hit is atomic with respect to the other
\* hits of the same id: with hits in flight at the same time, each handled
\* hit adds one to the stored count, in the SQLite variant when it is
\* handled and in the KV variant when its put is done, so that both
\* increments of two overlapping hits are reflected and none is lost.
C2_BothIncrementsReflected ==
    \A i \in Ids, k \in Kinds :
        /\ StoredCount(sqlTable, i, k) = hits[i][k]
        /\ StoredCount(kvStore, i, k) + Cardinality(Pending(i, k)) = hits[i][k]

\* C2 witness: two play hits of id 1 were in flight at the same time, both
\* are done and the count is 2 in both variants.
C2_Witness ==
    /\ overlap
    /\ \A c \in Conns : reqs[c] = Idle
    /\ StoredCount(sqlTable, 1, "play") = 2
    /\ StoredCount(kvStore, 1, "play") = 2
    /\ resp.op = "hit-kv" /\ resp.kv.count = 2

\* ------------------------------------------- /counts with a small cap
\* The id lists of the requests: up to MaxBulk + 1 raw ids, so that a list
\* can hold more distinct valid ids than a cap of MaxBulk lets through.
BulkLists ==
    SeqsUpTo({RawId(i, FALSE) : i \in 1..StoreIds}
                 \cup {RawId(LongId, FALSE), RawId(1, TRUE), RawId(ProtoId, FALSE)},
             MaxBulk + 1)

\* POST /counts handled by both variants, with MAX_IDS_POST scaled to cap.
BulkAny ==
    \E ty \in {"play", "both"}, ids \in BulkLists, cap \in 1..MaxBulk :
        LET body == [type |-> ty, ids |-> ids] IN
        /\ resp' = [op |-> "bulk", ids |-> ids, cap |-> cap,
                    sql |-> SqlCounts(sqlTable, body, cap, SQL_IN_CHUNK),
                    kv |-> KvCounts(kvStore, body, cap)]
        /\ UNCHANGED <<sqlTable, kvStore, now, secret, hits, lastTitle, lastFile,
                       wasReset, everHit, allReset, walk, reqs, overlap>>

HitBulk == HitPlainUpTo(StoreIds, BulkHits, StoreTime)

NextBulk == HitBulk \/ BulkAny

\* /counts requests that reach the cap, between hits.
SpecBulk == Init /\ [][NextBulk]_vars

\* The positions of an id list that hold the first occurrence of a valid id.
FirstSeen(ids) ==
    {p \in 1..Len(ids) :
        /\ ids[p].id # EmptyId /\ IdLen(ids[p].id) <= MAX_ID_LEN
        /\ \A q \in 1..(p - 1) : ids[q].id # ids[p].id}

\* Those among the first cap of them.
Kept(ids, cap) ==
    {p \in FirstSeen(ids) : Cardinality({q \in FirstSeen(ids) : q <= p}) <= cap}

\* The ids a /counts response holds an entry for, for a kind.
AnsweredFor(r, kind) ==
    IF r.type = "both" THEN DOMAIN r.counts[kind] ELSE DOMAIN r.counts

\* sanitizeIds returns the first cap distinct valid ids in first-seen order.
SanitizeIdsKeepsFirstSeen ==
    resp.op = "bulk" =>
        LET out == sanitizeIds(resp.ids, resp.cap)
            kept == Kept(resp.ids, resp.cap)
        IN /\ Len(out) = Cardinality(kept)
           /\ \A p \in kept :
                 out[Cardinality({q \in kept : q <= p})] = resp.ids[p].id

\* C11: for any id list bulkCounts answers for exactly the first MAX_BULK
\* distinct valid ids in first-seen order: duplicates collapse to their
\* first occurrence, ids beyond the cap are dropped without an error, and no
\* id outside the input appears in the answer.
C11_AnswersFirstDistinctValidIds ==
    resp.op = "bulk" =>
        \A v \in {"sql", "kv"} :
            /\ resp[v].status = 200
            /\ \A kind \in AnswerKinds(resp[v]) :
                  AnsweredFor(resp[v], kind)
                      = {resp.ids[p].id : p \in Kept(resp.ids, resp.cap)}

\* The same but for the id "__proto__", which gets no entry.
AnswersFirstDistinctValidButProto ==
    resp.op = "bulk" =>
        \A v \in {"sql", "kv"} :
            /\ resp[v].status = 200
            /\ \A kind \in AnswerKinds(resp[v]) :
                  AnsweredFor(resp[v], kind)
                      = {resp.ids[p].id : p \in Kept(resp.ids, resp.cap)}
                            \ {ProtoId}

\* ----------------------------------------- /counts with small chunks
ChunkLists ==
    SeqsUpTo({RawId(i, FALSE) : i \in 1..(StoreIds + 1)} \cup {RawId(ProtoId, FALSE)},
             MaxBulk + 1)

\* POST /counts handled by both variants, with SQL_IN_CHUNK scaled to chunk.
ChunkAny ==
    \E ty \in {"download", "both"}, ids \in ChunkLists, chunk \in 1..MaxBulk :
        LET body == [type |-> ty, ids |-> ids] IN
        /\ resp' = [op |-> "chunk", type |-> ty, ids |-> ids, chunk |-> chunk,
                    sql |-> SqlCounts(sqlTable, body, MAX_IDS_POST, chunk),
                    kv |-> KvCounts(kvStore, body, MAX_IDS_POST)]
        /\ UNCHANGED <<sqlTable, kvStore, now, secret, hits, lastTitle, lastFile,
                       wasReset, everHit, allReset, walk, reqs, overlap>>

NextChunk == HitBulk \/ ChunkAny

\* /counts requests that span several chunks, between hits.
SpecChunk == Init /\ [][NextChunk]_vars

\* The offsets at which the chunk loop starts a query for n ids.
ChunkStarts(n, chunkSize) == {i \in 0..(n - 1) : i % chunkSize = 0}

\* C12: chunking never changes the result of bulkCounts: the mapping the
\* SQLite variant builds from chunks of SQL_IN_CHUNK ids equals the mapping
\* of one lookup of all the ids, and no query receives more than
\* SQL_IN_CHUNK ids; every id is in exactly one query.
C12_ChunkingKeepsResult ==
    resp.op = "chunk" =>
        LET body == [type |-> resp.type, ids |-> resp.ids]
            ids == sanitizeIds(resp.ids, MAX_IDS_POST)
            inOne == SqlCounts(sqlTable, body, MAX_IDS_POST, Len(resp.ids) + 1)
        IN /\ resp.sql = inOne
           /\ resp.sql.status = 200
           /\ \A kind \in AnswerKinds(resp.sql) :
                \A id \in AnsweredFor(resp.sql, kind) :
                    Reported(resp.sql, kind, id) = StoredCount(sqlTable, id, kind)
           /\ \A i \in ChunkStarts(Len(ids), resp.chunk) :
                 Len(SqlChunk(ids, i, resp.chunk)) \in 1..resp.chunk
           /\ \A p \in 1..Len(ids) :
                 LET i == ((p - 1) \div resp.chunk) * resp.chunk
                 IN /\ i \in ChunkStarts(Len(ids), resp.chunk)
                    /\ SqlChunk(ids, i, resp.chunk)[p - i] = ids[p]

\* C12 witness: three distinct ids asked in chunks of one id; the answer
\* holds the download of the id that was hit and 0 for the others.
C12_Witness ==
    /\ resp.op = "chunk" /\ resp.chunk = 1 /\ resp.type = "download"
    /\ Len(sanitizeIds(resp.ids, MAX_IDS_POST)) = 3
    /\ AnsweredFor(resp.sql, "download") = {1, 2, 3}
    /\ \E i \in {1, 2, 3} :
          /\ Reported(resp.sql, "download", i) = 1
          /\ \A j \in {1, 2, 3} \ {i} : Reported(resp.sql, "download", j) = 0

\* ------------------------------------------------ the limit of /top
LimitParams ==
    {AbsentParam, TextParam}
        \cup {IntParam(n) : n \in (-1..MaxLimit) \cup {TOP_LIMIT_MAX, TOP_LIMIT_MAX + 1}}

\* GET /top with the limit as the URL carries it.
TopLimitAny ==
    \E ty \in TopTypes, p \in LimitParams, c \in {0, 1} :
        LET query == [type |-> ty, limit |-> limitNumber(p), cursor |-> c] IN
        /\ resp' = [op |-> "limit", param |-> p,
                    sql |-> SqlRouteTop(sqlTable, query),
                    kv |-> KvRouteTop(kvStore, query)]
        /\ UNCHANGED <<sqlTable, kvStore, now, secret, hits, lastTitle, lastFile,
                       wasReset, everHit, allReset, walk, reqs, overlap>>

NextLimit == HitPlainStore \/ TopLimitAny

\* /top requests with any limit parameter, between hits.
SpecLimit == Init /\ [][NextLimit]_vars

\* C13: the limit topPage uses is always an integer in [1, TOP_LIMIT_MAX]:
\* a limit parameter below 1, above TOP_LIMIT_MAX or not numeric is clamped
\* into the range, and the request is neither rejected nor served with the
\* parameter as it is.
C13_LimitClamped ==
    resp.op = "limit" =>
        \A v \in {"sql", "kv"} :
            /\ resp[v].status = 200
            /\ resp[v].limit \in 1..TOP_LIMIT_MAX
            /\ Len(resp[v].rows) <= resp[v].limit

\* The same for a limit parameter that is an integer literal or absent.
NumericLimitClamped ==
    (resp.op = "limit" /\ resp.param.kind # "text") =>
        \A v \in {"sql", "kv"} :
            /\ resp[v].status = 200
            /\ resp[v].limit \in 1..TOP_LIMIT_MAX
            /\ resp[v].limit = Min(TOP_LIMIT_MAX, Max(1, limitNumber(resp.param)))
            /\ Len(resp[v].rows) <= resp[v].limit

\* ------------------------------------------- storage steps that throw
\* The response to a request whose handler throws in the KV variant: its
\* fetch catches nothing, the exception leaves the Durable Object and the
\* caller gets the runtime's error.
Thrown == [status |-> 500, ok |-> FALSE, error |-> "exception"]

\* The storage calls of the handlers, named after the call that throws.
HitSteps == {"upsert", "readBack", "kvGet", "kvPut"}
CountsSteps == {"sqlIn", "kvGetMany", "kvGetOne"}
ResetSteps == {"sqlDelete", "sqlCount", "sqlDeleteAll", "kvDelete", "kvDeleteAll"}

\* The calls that throw during one request: none, or one of `steps`.
OneOf(steps) == {{}} \cup {{x} : x \in steps}

Outcome(store, response, failed) ==
    [store |-> store, resp |-> response, failed |-> failed]

\* routeHit of the SQLite variant when the calls in `fail` throw. A failed
\* upsert leaves routeHit and fetch answers for it; a failed read-back is
\* caught in routeHit, which goes on with row = null.
SqlHitFailing(table, body, t, fail) ==
    LET done == SqlRouteHit(table, body, t) IN
    IF done[2].status # 200 THEN Outcome(table, done[2], FALSE)
    ELSE IF "upsert" \in fail THEN Outcome(table, InternalError, TRUE)
    ELSE IF "readBack" \in fail
    THEN Outcome(done[1],
                 [done[2] EXCEPT !.title = EmptyStr, !.file_name = EmptyStr,
                                 !.count = 0, !.updatedAt = t],
                 TRUE)
    ELSE Outcome(done[1], done[2], FALSE)

\* routeHit of the KV variant when the calls in `fail` throw.
KvHitFailing(store, body, t, fail) ==
    LET done == KvRouteHit(store, body, t) IN
    IF done[2].status # 200 THEN Outcome(store, done[2], FALSE)
    ELSE IF "kvGet" \in fail \/ "kvPut" \in fail THEN Outcome(store, Thrown, TRUE)
    ELSE Outcome(done[1], done[2], FALSE)

\* routeCounts of the SQLite variant when the calls in `fail` throw.
SqlCountsFailing(table, body, fail) ==
    LET done == SqlRouteCounts(table, body) IN
    IF done.status # 200 \/ Len(sanitizeIds(body.ids, MAX_IDS_POST)) = 0
    THEN Outcome(table, done, FALSE)
    ELSE IF "sqlIn" \in fail THEN Outcome(table, InternalError, TRUE)
    ELSE Outcome(table, done, FALSE)

\* routeCounts of the KV variant when the calls in `fail` throw: after a
\* failed storage.get(ids) the catch block reads the ids one by one.
KvCountsFailing(store, body, fail) ==
    LET done == KvRouteCounts(store, body) IN
    IF done.status # 200 \/ Len(sanitizeIds(body.ids, MAX_IDS_POST)) = 0
    THEN Outcome(store, done, FALSE)
    ELSE IF "kvGetMany" \notin fail THEN Outcome(store, done, FALSE)
    ELSE IF "kvGetOne" \in fail THEN Outcome(store, Thrown, TRUE)
    ELSE Outcome(store, done, TRUE)

\* routeReset of the SQLite variant when the calls in `fail` throw.
SqlResetFailing(table, token, sec, body, fail) ==
    LET done == SqlRouteReset(table, token, sec, body) IN
    IF done[2].status # 200 THEN Outcome(table, done[2], FALSE)
    ELSE IF body.mode = "id" /\ "sqlDelete" \in fail
    THEN Outcome(table, InternalError, TRUE)
    ELSE IF body.mode = "all" /\ ("sqlCount" \in fail \/ "sqlDeleteAll" \in fail)
    THEN Outcome(table, InternalError, TRUE)
    ELSE Outcome(done[1], done[2], FALSE)

\* routeReset of the KV variant when the calls in `fail` throw. A
\* storage.deleteAll() that fails may have deleted any part of the data:
\* `left` are the keys still stored.
KvResetFailing(store, token, sec, body, fail, left) ==
    LET done == KvRouteReset(store, token, sec, body) IN
    IF done[2].status # 200 THEN Outcome(store, done[2], FALSE)
    ELSE IF body.mode = "id" /\ "kvDelete" \in fail
    THEN Outcome(store, Thrown, TRUE)
    ELSE IF body.mode = "all" /\ "kvDeleteAll" \in fail
    THEN Outcome([k \in left |-> store[k]], Thrown, TRUE)
    ELSE Outcome(done[1], done[2], FALSE)

\* The hits a variant stores, over all its counters.
StoredTotal(store) ==
    LET RECURSIVE Sum(_)
        Sum(S) == IF S = {} THEN 0
                  ELSE LET k == CHOOSE x \in S : TRUE
                       IN store[k].pl + store[k].dl + Sum(S \ {k})
    IN Sum(DOMAIN store)

\* A hit is taken while both variants store fewer than FailHits hits.
FailRoom == StoredTotal(sqlTable) < FailHits /\ StoredTotal(kvStore) < FailHits

HitFailing ==
    \E ty \in Kinds \cup {"bogus"}, r \in {RawId(i, FALSE) : i \in 0..FailIds},
       fail \in OneOf(HitSteps), t \in TimesUpTo(StoreTime) :
        \E ti \in IF r.id = 1 THEN {Undefined, Str("A", 1)} ELSE {Undefined} :
            LET body == [type |-> ty, id |-> r, title |-> ti,
                         file_name |-> EmptyStr]
                s == SqlHitFailing(sqlTable, body, t, fail)
                k == KvHitFailing(kvStore, body, t, fail)
            IN /\ FailRoom
               /\ sqlTable' = s.store
               /\ kvStore' = k.store
               /\ now' = t
               /\ resp' = [op |-> "hit", id |-> r.id, type |-> ty,
                           sql |-> s.resp, kv |-> k.resp,
                           failed |-> [sql |-> s.failed, kv |-> k.failed]]
               /\ UNCHANGED <<secret, hits, lastTitle, lastFile, wasReset,
                              everHit, allReset, walk, reqs, overlap>>

CountsFailing ==
    \E ty \in {"play", "both"},
       ids \in SeqsUpTo({RawId(i, FALSE) : i \in 1..FailIds}, 1),
       fail \in SUBSET CountsSteps :
        LET body == [type |-> ty, ids |-> ids]
            s == SqlCountsFailing(sqlTable, body, fail)
            k == KvCountsFailing(kvStore, body, fail)
        IN /\ resp' = [op |-> "counts", id |-> EmptyId, type |-> ty,
                       sql |-> s.resp, kv |-> k.resp,
                       failed |-> [sql |-> s.failed, kv |-> k.failed]]
           /\ UNCHANGED <<sqlTable, kvStore, now, secret, hits, lastTitle,
                          lastFile, wasReset, everHit, allReset, walk, reqs,
                          overlap>>

ResetFailing ==
    \E mode \in {"id", "all"}, r \in {RawId(i, FALSE) : i \in 0..FailIds},
       tok \in {"s3cret", "guess"}, fail \in OneOf(ResetSteps) :
        \E left \in IF "kvDeleteAll" \in fail /\ mode = "all"
                    THEN SUBSET DOMAIN kvStore ELSE {{}} :
            LET body == [mode |-> mode, id |-> r]
                s == SqlResetFailing(sqlTable, tok, secret, body, fail)
                k == KvResetFailing(kvStore, tok, secret, body, fail, left)
            IN /\ sqlTable' = s.store
               /\ kvStore' = k.store
               /\ resp' = [op |-> "reset", id |-> r.id, type |-> mode,
                           sql |-> s.resp, kv |-> k.resp,
                           failed |-> [sql |-> s.failed, kv |-> k.failed]]
               /\ UNCHANGED <<now, secret, hits, lastTitle, lastFile, wasReset,
                              everHit, allReset, walk, reqs, overlap>>

NextFail == HitFailing \/ CountsFailing \/ ResetFailing

\* Requests during which any of the storage calls may throw. The histories
\* of the hits are not kept here.
SpecFail == Init /\ [][NextFail]_vars

Variants == {"sql", "kv"}
StoreOf(v) == IF v = "sql" THEN sqlTable ELSE kvStore

\* The count of `kind` a stored record holds.
CountOf(rec, kind) == IF kind = "play" THEN rec.pl ELSE rec.dl

\* The response of variant v to the hit just handled is the snapshot of the
\* counter: its count is the stored one and one more than before, its title,
\* file name and updatedAt are the stored ones.
ReturnsSnapshot(v) ==
    LET id == resp'.id
        kind == resp'.type
        before == IF Has(StoreOf(v), id) THEN CountOf(StoreOf(v)[id], kind) ELSE 0
        rec == StoreOf(v)'[id]
    IN  /\ Has(StoreOf(v)', id)
        /\ resp'[v].count = CountOf(rec, kind)
        /\ resp'[v].count = before + 1
        /\ resp'[v].title = rec.title
        /\ resp'[v].file_name = rec.file_name
        /\ resp'[v].updatedAt = rec.updatedAt

\* C14: a successful hit(id, kind) returns the resulting snapshot of the
\* counter: the returned count equals the stored count of that kind for id
\* right after the increment (the previous count plus exactly one), and the
\* returned title, fileName and updatedAt equal the stored values.
C14_HitReturnsSnapshot ==
    [][\A v \in Variants :
          (resp'.op = "hit" /\ resp'[v].status = 200) => ReturnsSnapshot(v)]_vars

\* The same for the hits during which no storage call threw.
HitReturnsSnapshotUnfailed ==
    [][\A v \in Variants :
          (resp'.op = "hit" /\ resp'[v].status = 200 /\ ~resp'.failed[v])
              => ReturnsSnapshot(v)]_vars

\* C15: a storage failure during hit or bulkCounts is surfaced to the caller
\* as a failure and never swallowed: no request in which a storage step
\* failed is answered with a success response.
C15_StorageFailureSurfaced ==
    \A v \in Variants :
        (resp.op \in {"hit", "counts"} /\ resp.failed[v]) => resp[v].status # 200

\* The failures answered with success are those the two catch blocks take:
\* the read-back of the SQLite routeHit and the storage.get(ids) of the KV
\* routeCounts.
FailureSurfacedButCaught ==
    \A v \in Variants :
        (resp.op \in {"hit", "counts"} /\ resp.failed[v] /\ resp[v].status = 200)
            => \/ v = "sql" /\ resp.op = "hit"
               \/ v = "kv" /\ resp.op = "counts"

\* Variant v answered the request just handled with a failure because a
\* storage call threw.
FailureAnswer(v) ==
    /\ resp'.op \in {"hit", "reset"}
    /\ resp'.failed[v]
    /\ resp'[v].status = 500

\* C16: whenever a hit, resetOne or resetAll request ends in a failure
\* response because a storage step failed, the store is exactly as it was
\* before the request: no counter incremented, no record deleted.
C16_FailureLeavesStore ==
    [][\A v \in Variants : FailureAnswer(v) => StoreOf(v)' = StoreOf(v)]_vars

\* The same but for the mode "all" reset of the KV variant.
FailureLeavesStoreButDeleteAll ==
    [][\A v \in Variants :
          (FailureAnswer(v) /\ ~(v = "kv" /\ resp'.op = "reset" /\ resp'.type = "all"))
              => StoreOf(v)' = StoreOf(v)]_vars

\* ---------------------------------------- the guards of /hit and /reset
GuardTypes == {"play", "download", "both", "bogus", "PLAY"}

\* POST /hit with any type and id; the request is kept with the responses.
GuardHit ==
    \E ty \in GuardTypes, r \in RawIdsUpTo(StoreIds),
       ti \in {Undefined, Str("A", 1)}, t \in TimesUpTo(StoreTime) :
        LET body == [type |-> ty, id |-> r, title |-> ti, file_name |-> EmptyStr]
            s == SqlRouteHit(sqlTable, body, t)
            k == KvRouteHit(kvStore, body, t)
        IN /\ StoredTotal(sqlTable) < StoreHits
           /\ sqlTable' = s[1]
           /\ kvStore' = k[1]
           /\ now' = t
           /\ resp' = [op |-> "hit", type |-> ty, id |-> r, token |-> "",
                       sql |-> s[2], kv |-> k[2]]
           /\ UNCHANGED <<secret, hits, lastTitle, lastFile, wasReset, everHit,
                          allReset, walk, reqs, overlap>>

\* POST /reset with any token, mode and id.
GuardReset ==
    \E mode \in ResetModes, r \in RawIdsUpTo(StoreIds), tok \in Tokens :
        LET body == [mode |-> mode, id |-> r]
            s == SqlRouteReset(sqlTable, tok, secret, body)
            k == KvRouteReset(kvStore, tok, secret, body)
        IN /\ sqlTable' = s[1]
           /\ kvStore' = k[1]
           /\ resp' = [op |-> "reset", type |-> mode, id |-> r, token |-> tok,
                       sql |-> s[2], kv |-> k[2]]
           /\ UNCHANGED <<now, secret, hits, lastTitle, lastFile, wasReset,
                          everHit, allReset, walk, reqs, overlap>>

NextGuard == GuardHit \/ GuardReset

\* Every /hit and /reset request, kept with its responses. The histories of
\* the hits are not kept here.
SpecGuard == Init /\ [][NextGuard]_vars

\* The id of a request fails validation: empty after trimming, or longer
\* than MAX_ID_LEN.
InvalidId(r) == Trim(r) = EmptyId \/ IdLen(Trim(r)) > MAX_ID_LEN

\* The request just handled is a hit with an invalid id or with a kind that
\* is not play or download.
InvalidHit(req) ==
    /\ req.op = "hit"
    /\ InvalidId(req.id) \/ ToLowerCase(req.type) \notin Kinds

\* The request just handled is a resetOne with an invalid id.
InvalidResetOne(req) == req.op = "reset" /\ req.type = "id" /\ InvalidId(req.id)

StoresUnchanged == sqlTable' = sqlTable /\ kvStore' = kvStore

\* C17 as stated: hit and resetOne with an id that fails validation, and hit
\* with a kind other than play or download, fail with a 400 response and
\* leave every counter in the store unchanged.
C17_Original_InvalidIs400 ==
    [][(InvalidHit(resp') \/ InvalidResetOne(resp'))
          => /\ \A v \in Variants : resp'[v].status = 400
             /\ StoresUnchanged]_vars

\* C17: hit with an id that fails validation or with a kind other than play
\* or download (in any letter case) fails with a 400 response; resetOne with
\* an id that fails validation fails with a 400 response when the presented
\* token is the configured secret and with a 401 response otherwise; in
\* every case the store is left unchanged.
C17_InvalidIs400Or401 ==
    [][/\ InvalidHit(resp') =>
            /\ \A v \in Variants : resp'[v].status = 400
            /\ StoresUnchanged
       /\ InvalidResetOne(resp') =>
            /\ \A v \in Variants :
                  resp'[v].status =
                      IF requireAdmin(resp'.token, secret) THEN 400 ELSE 401
            /\ StoresUnchanged]_vars

C17_Witness ==
    /\ resp.op = "hit"
    /\ resp.id = RawId(LongId, FALSE)
    /\ resp.type = "play"
    /\ resp.sql.status = 400 /\ resp.kv.status = 400
    /\ sqlTable # EmptyStore /\ kvStore # EmptyStore

\* C18: a reset request (mode all or id) deletes data only if a non-empty
\* admin secret is configured and the presented token equals it exactly; in
\* every other case (no secret, missing token, wrong token) the request is
\* denied and the store is unchanged, and the response for a missing secret
\* differs from the one for a wrong token.
C18_ResetNeedsSecret ==
    [][(resp'.op = "reset" /\ ~(secret # "" /\ resp'.token = secret))
          => /\ StoresUnchanged
             /\ \A v \in Variants :
                   /\ resp'[v].status = 401
                   /\ resp'[v].error = IF secret = ""
                                       THEN "ADMIN_TOKEN secret missing"
                                       ELSE "Unauthorized"]_vars

C18_Witness ==
    /\ resp.op = "reset"
    /\ resp.token = "guess"
    /\ secret = "s3cret"
    /\ resp.type = "all"
    /\ resp.sql.status = 401 /\ resp.kv.status = 401
    /\ sqlTable # EmptyStore /\ kvStore # EmptyStore

\* Variant v answered the mode "all" reset just handled with success.
ResetAllDone(v) ==
    resp'.op = "reset" /\ resp'.type = "all" /\ resp'[v].status = 200

\* The response of variant v reports as deleted the number of counters the
\* store held before the request.
ReportsDeleted(v) ==
    /\ "deleted" \in DOMAIN resp'[v]
    /\ resp'[v].deleted = Cardinality(DOMAIN StoreOf(v))

\* C19: resetAll returns the count of records deleted: the reported
\* deletedCount equals the number of counters that existed in the store
\* immediately before the reset.
C19_ResetAllReportsDeleted ==
    [][\A v \in Variants : ResetAllDone(v) => ReportsDeleted(v)]_vars

\* The same for the SQLite variant alone; and both variants delete every
\* counter.
SqlResetAllReportsDeleted ==
    [][/\ ResetAllDone("sql") => ReportsDeleted("sql")
       /\ \A v \in Variants : ResetAllDone(v) => StoreOf(v)' = EmptyStore]_vars

NextView == HitPlainStore \/ ResetOneOk \/ ResetAllOk \/ TopAny

\* /top requests between hits and resets.
SpecView == Init /\ [][NextView]_vars

WholeView(v, ty) ==
    LET q == [type |-> ty, limit |-> TOP_LIMIT_MAX, cursor |-> 0] IN
    IF v = "sql" THEN SqlRouteTop(sqlTable, q) ELSE KvRouteTop(kvStore, q)

OtherKind(kind) == IF kind = "play" THEN "download" ELSE "play"

\* The ids of a metric's whole view, in the order variant v serves them.
ViewIds(v, ty) == PageIds(WholeView(v, ty))

\* The request just handled is a successful hit of `kind`.
HitDone(kind) ==
    /\ resp'.op = "hit"
    /\ resp'.sql.status = 200 /\ resp'.kv.status = 200
    /\ resp'.sql.type = kind

HitRank == HitPlainUpTo(StoreIds, MaxHits, MaxTime)

NextRank == HitRank \/ ResetOneOk

\* Hits at different times and resets of one id.
SpecRank == Init /\ [][NextRank]_vars

\* C21: each metric's ranking is independent of the other metric: a hit of
\* kind play on any id leaves the sequence of ids returned by
\* topPage(download) unchanged for every offset and limit, and a hit of kind
\* download leaves topPage(play) unchanged.
C21_MetricsIndependent ==
    [][\A kind \in Kinds, v \in Variants :
          HitDone(kind) => ViewIds(v, OtherKind(kind))' = ViewIds(v, OtherKind(kind))]_vars

\* What a hit of one kind leaves alone in the other metric's view: the
\* count of every id, and the order of the ids other than the one hit.
Without(seq, id) == SelectSeq(seq, LAMBDA x : x # id)

OtherMetricCountsKept ==
    [][\A kind \in Kinds, v \in Variants :
          HitDone(kind) =>
              LET id == resp'.sql.id
                  other == OtherKind(kind)
              IN /\ Without(ViewIds(v, other)', id) = Without(ViewIds(v, other), id)
                 /\ \A i \in DOMAIN StoreOf(v) :
                       CountOf(StoreOf(v)'[i], other) = CountOf(StoreOf(v)[i], other)]_vars

\* ------------------------------------------- the view and the counters
CountsOf(v, body) ==
    IF v = "sql" THEN SqlRouteCounts(sqlTable, body) ELSE KvRouteCounts(kvStore, body)

\* Every row of a metric's view for an id of S reports the count /counts
\* reports for the id and the metric, and the stored title and file_name.
ViewMirrorsCountersOn(S) ==
    \A v \in Variants, ty \in Kinds :
        \A k \in 1..Len(WholeView(v, ty).rows) :
            LET row == WholeView(v, ty).rows[k] IN
            row.id \in S =>
                /\ Reported(CountsOf(v, KindReq(ty, row.id)), ty, row.id) = row.count
                /\ Reported(CountsOf(v, BothReq(row.id)), ty, row.id) = row.count
                /\ row.title = StoreOf(v)[row.id].title
                /\ row.file_name = StoreOf(v)[row.id].file_name

\* C22: the ranked view only mirrors the counters: in every reachable state,
\* for every row returned by topPage(metric), the row's count equals the
\* count bulkCounts reports for that id and metric in the same state, and its
\* title and fileName equal the stored ones, so that a counter is never
\* incremented while its rank entry is stale or the reverse.
C22_ViewMirrorsCounters == ViewMirrorsCountersOn(Ids)

\* The same for every id but "__proto__".
ViewMirrorsCountersButProto == ViewMirrorsCountersOn(Ids \ {ProtoId})

\* ------------------------------------------------ writes during a walk
\* The pages variant v returned to the walk hold some id twice.
ReturnedTwice(v) == ~NoTwice(walk[v].ids)

\* The walk of variant v ended and some id that had a counter from its
\* first request on is on none of its pages. (SpecWalk has no resets.)
ReturnedNever(v) ==
    /\ walk[v].cursor = Null
    /\ \E id \in walk.start : \A n \in 1..Len(walk[v].ids) : walk[v].ids[n] # id

\* C23: pagination offers no snapshot isolation: a walk returns an id on two
\* pages, or leaves out an id present throughout, only when a hit landed
\* between two of its requests; C23_Witness is such an execution.
C23_AnomalyNeedsWrite ==
    walk.active =>
        \A v \in Variants : (ReturnedTwice(v) \/ ReturnedNever(v)) => ~walk.clean

\* C23 witness: a hit landed during the walk, and in both variants the walk
\* ended having returned one id twice and another, present throughout, never.
C23_Witness ==
    /\ walk.active /\ ~walk.clean
    /\ \A v \in Variants : ReturnedTwice(v) /\ ReturnedNever(v)

\* ------------------------------------------------- what a write leaves
\* The records of variant v other than the one of id are as they were.
OthersKept(v, id) ==
    /\ DOMAIN StoreOf(v)' \ {id} = DOMAIN StoreOf(v) \ {id}
    /\ \A k \in DOMAIN StoreOf(v) \ {id} : StoreOf(v)'[k] = StoreOf(v)[k]

\* C24: hit(id, kind) changes only the record of id: every other id's play
\* count, download count, title, fileName and updatedAt are unchanged, and
\* id's count of the other kind is unchanged; likewise resetOne(id) leaves
\* every other id's record unchanged.
C24_WritesTouchOneRecord ==
    [][\A v \in Variants :
          /\ (resp'.op = "hit" /\ resp'[v].status = 200) =>
                /\ OthersKept(v, resp'[v].id)
                /\ StoredCount(StoreOf(v)', resp'[v].id, OtherKind(resp'[v].type))
                      = StoredCount(StoreOf(v), resp'[v].id,
                                    OtherKind(resp'[v].type))
          /\ (resp'.op = "reset" /\ resp'.type = "id" /\ resp'[v].status = 200) =>
                /\ OthersKept(v, resp'[v].id)
                /\ ~Has(StoreOf(v)', resp'[v].id)]_vars

\* C24 witness: a hit without title created the record of one id next to
\* the titled record of another.
C24_Witness ==
    /\ resp.op = "hit"
    /\ resp.sql.status = 200 /\ resp.kv.status = 200
    /\ resp.sql.count = 1 /\ resp.sql.title = EmptyStr
    /\ Cardinality(DOMAIN sqlTable) = 2 /\ Cardinality(DOMAIN kvStore) = 2
    /\ \E k \in DOMAIN sqlTable : sqlTable[k].title = Str("A", 1)

\* ------------------------------------------------------- the reads
\* Mutant: the read empties the store.
ReadClears(store, response) == <<EmptyStore, response>>

\* The effect of a read handler: its storage calls are SELECT statements,
\* storage.get and storage.list, which leave the store as it is.
ReadOnly(store, response) == <<store, response>>

\* POST /counts with any type and ids, and the same request once more.
ReadCounts ==
    \E ty \in {"play", "both", "bogus"},
       ids \in SeqsUpTo(RawIdsUpTo(StoreIds), MaxBulk) :
        LET body == [type |-> ty, ids |-> ids]
            s == ReadOnly(sqlTable, SqlRouteCounts(sqlTable, body))
            k == ReadOnly(kvStore, KvRouteCounts(kvStore, body))
        IN /\ sqlTable' = s[1]
           /\ kvStore' = k[1]
           /\ resp' = [op |-> "counts", request |-> body,
                       sql |-> s[2], kv |-> k[2],
                       again |-> [sql |-> SqlRouteCounts(s[1], body),
                                  kv |-> KvRouteCounts(k[1], body)]]
           /\ UNCHANGED <<now, secret, hits, lastTitle, lastFile, wasReset,
                          everHit, allReset, walk, reqs, overlap>>

\* GET /top with any type, limit and cursor, and the same request once more.
ReadTop ==
    \E ty \in TopTypes \cup {"bogus"}, p \in LimitParams, c \in -1..1 :
        LET query == [type |-> ty, limit |-> limitNumber(p), cursor |-> c]
            s == ReadOnly(sqlTable, SqlRouteTop(sqlTable, query))
            k == ReadOnly(kvStore, KvRouteTop(kvStore, query))
        IN /\ sqlTable' = s[1]
           /\ kvStore' = k[1]
           /\ resp' = [op |-> "top", request |-> query,
                       sql |-> s[2], kv |-> k[2],
                       again |-> [sql |-> SqlRouteTop(s[1], query),
                                  kv |-> KvRouteTop(k[1], query)]]
           /\ UNCHANGED <<now, secret, hits, lastTitle, lastFile, wasReset,
                          everHit, allReset, walk, reqs, overlap>>

NextRead == HitPlainStore \/ ReadCounts \/ ReadTop

\* /counts and /top requests, each made twice in a row, between hits.
SpecRead == Init /\ [][NextRead]_vars

NextBoth == HitPlain \/ ResetOneOk \/ ResetAllOk

\* Hits at different times and resets, handled by both variants.
SpecBoth == Init /\ [][NextBoth]_vars

CountsRequests ==
    [type : {"play", "download", "both"}, ids : SeqsUpTo(RawIdsUpTo(NumIds), 1)]

\* C26: the two persistence variants are observationally equivalent: run
\* side by side on the same hit, resetOne and resetAll operations with the
\* same timestamps, they return the same hit snapshots, the same bulkCounts
\* mappings, and the same topPage rows and nextCursor for every metric,
\* offset and limit.
C26_VariantsEquivalent ==
    /\ resp.op = "hit" => resp.sql = resp.kv
    /\ \A body \in CountsRequests :
          SqlRouteCounts(sqlTable, body) = KvRouteCounts(kvStore, body)
    /\ \A q \in TopQueries : SqlRouteTop(sqlTable, q) = KvRouteTop(kvStore, q)

\* What the variants agree on: the records they store, the hit snapshots,
\* the bulkCounts mappings, and for /top the cursor, the number of rows of
\* every page and the rows of the whole view, which the two variants may
\* list in different orders.
VariantsAgreeButOrder ==
    /\ sqlTable = kvStore
    /\ resp.op = "hit" => resp.sql = resp.kv
    /\ \A body \in CountsRequests :
          SqlRouteCounts(sqlTable, body) = KvRouteCounts(kvStore, body)
    /\ \A q \in TopQueries :
          LET s == SqlRouteTop(sqlTable, q)
              k == KvRouteTop(kvStore, q)
          IN /\ s.cursor = k.cursor /\ s.type = k.type /\ s.limit = k.limit
             /\ Len(s.rows) = Len(k.rows)
    /\ \A ty \in Kinds :
          {WholeView("sql", ty).rows[n] : n \in 1..Len(WholeView("sql", ty).rows)}
              = {WholeView("kv", ty).rows[n] : n \in 1..Len(WholeView("kv", ty).rows)}

=============================================================================
